---- MODULE Spec2Model ----
(***************************************************************************)
(* Project operations of the MCP Kanban server (src/operations/projects.ts)*)
(*                                                                         *)
(* Every exported operation is an async function: it runs synchronously up *)
(* to its single `await plankaRequest(...)`, is suspended until the        *)
(* request settles, and then runs its continuation (response validation,   *)
(* return) or its catch block (error wrapping).  A call slot of the model  *)
(* is one caller; `calls[c]` is the invocation that caller has in progress.*)
(***************************************************************************)
EXTENDS Integers, Sequences, FiniteSets

VARIABLES calls

vars == <<calls>>

(***************************************************************************)
(* Bounds of the model and constants of the program                        *)
(***************************************************************************)
NumCalls == 2          \* concurrent callers of the concurrent specification
MaxPage == 2           \* pages 1..MaxPage are supplied to getProjects
MaxExcess == 50        \* largest supplied perPage is MaxPerPage + MaxExcess

DefaultPage == 1
DefaultPerPage == 30
MaxPerPage == 100

Calls == 1..NumCalls

(***************************************************************************)
(* Values                                                                  *)
(***************************************************************************)
\* A JavaScript object without properties.
EmptyObj == [k \in {} |-> ""]

\* Decoded JSON values, tagged with their runtime type.
JNull == [type |-> "null", val |-> 0]
JStr(s) == [type |-> "string", val |-> s]
JNum(n) == [type |-> "number", val |-> n]
JArr(s) == [type |-> "array", val |-> s]
JObj(f) == [type |-> "object", val |-> f]

\* An instance of Error carrying a message.
Error(m) == [type |-> "Error", val |-> m]

\* An optional argument: either supplied with a value or omitted (undefined).
Some(v) == [given |-> TRUE, val |-> v]
NoNumber == [given |-> FALSE, val |-> 0]
NoString == [given |-> FALSE, val |-> ""]

(***************************************************************************)
(* Conversions                                                             *)
(***************************************************************************)
Digit(d) ==
    CASE d = 0 -> "0" [] d = 1 -> "1" [] d = 2 -> "2" [] d = 3 -> "3"
      [] d = 4 -> "4" [] d = 5 -> "5" [] d = 6 -> "6" [] d = 7 -> "7"
      [] d = 8 -> "8" [] d = 9 -> "9"

\* Number.prototype.toString() of an integer: decimal digits, "-" when negative.
RECURSIVE ToString(_)
ToString(n) ==
    IF n < 0 THEN "-" \o ToString(0 - n)
    ELSE IF n < 10 THEN Digit(n)
    ELSE ToString(n \div 10) \o Digit(n % 10)

\* String(error) of a thrown value that is not an Error.
String(v) ==
    CASE v.type = "string" -> v.val
      [] v.type = "number" -> ToString(v.val)
      [] v.type = "null" -> "null"
      [] OTHER -> "[object Object]"

\* URLSearchParams.toString(): name=value pairs joined by "&".  The values
\* appended here are decimal digits and "-", which the serializer leaves as is.
RECURSIVE URLSearchParamsToString(_)
URLSearchParamsToString(params) ==
    IF params = << >> THEN ""
    ELSE IF Len(params) = 1 THEN params[1][1] \o "=" \o params[1][2]
    ELSE params[1][1] \o "=" \o params[1][2] \o "&"
         \o URLSearchParamsToString(Tail(params))

(***************************************************************************)
(* Response schemas.  parse() yields the validated data or a ZodError.     *)
(***************************************************************************)
ParseOk(d) == [success |-> TRUE, data |-> d, error |-> Error("")]
ParseFail(m) == [success |-> FALSE, data |-> JNull, error |-> Error(m)]

\* PlankaProjectSchema (common/types): an object with a string id and a
\* string name.
PlankaProjectSchema(v, at) ==
    IF v.type # "object" THEN ParseFail(at \o ": Expected object, received " \o v.type)
    ELSE IF "id" \notin DOMAIN v.val THEN ParseFail(at \o ".id: Required")
    ELSE IF v.val["id"].type # "string"
         THEN ParseFail(at \o ".id: Expected string, received " \o v.val["id"].type)
    ELSE IF "name" \notin DOMAIN v.val THEN ParseFail(at \o ".name: Required")
    ELSE IF v.val["name"].type # "string"
         THEN ParseFail(at \o ".name: Expected string, received " \o v.val["name"].type)
    ELSE ParseOk(v)

\* `included: z.record(z.any()).optional()`
IncludedOk(f) == "included" \in DOMAIN f => f["included"].type = "object"

\* z.object strips the keys it does not declare.
Strip(f, keys) == [k \in (DOMAIN f) \cap keys |-> f[k]]

\* Index of the first element of items that is not a project, 0 if none.
FirstInvalid(items) ==
    LET bad == {i \in 1..Len(items) : ~PlankaProjectSchema(items[i], "items").success}
    IN IF bad = {} THEN 0 ELSE CHOOSE i \in bad : \A j \in bad : i <= j

ProjectsResponseSchemaLax(v) ==
    IF v.type # "object" THEN ParseFail("Expected object, received " \o v.type)
    ELSE IF "items" \notin DOMAIN v.val THEN ParseFail("items: Required")
    ELSE ParseOk(JObj(Strip(v.val, {"items", "included"})))

ProjectsResponseSchema(v) ==
    IF v.type # "object" THEN ParseFail("Expected object, received " \o v.type)
    ELSE IF "items" \notin DOMAIN v.val THEN ParseFail("items: Required")
    ELSE IF v.val["items"].type # "array"
         THEN ParseFail("items: Expected array, received " \o v.val["items"].type)
    ELSE IF FirstInvalid(v.val["items"].val) # 0
         THEN PlankaProjectSchema(
                  v.val["items"].val[FirstInvalid(v.val["items"].val)],
                  "items[" \o ToString(FirstInvalid(v.val["items"].val) - 1) \o "]")
    ELSE IF ~IncludedOk(v.val)
         THEN ParseFail("included: Expected object, received " \o v.val["included"].type)
    ELSE ParseOk(JObj(Strip(v.val, {"items", "included"})))

ProjectResponseSchema(v) ==
    IF v.type # "object" THEN ParseFail("Expected object, received " \o v.type)
    ELSE IF "item" \notin DOMAIN v.val THEN ParseFail("item: Required")
    ELSE IF ~PlankaProjectSchema(v.val["item"], "item").success
         THEN PlankaProjectSchema(v.val["item"], "item")
    ELSE IF ~IncludedOk(v.val)
         THEN ParseFail("included: Expected object, received " \o v.val["included"].type)
    ELSE ParseOk(JObj(Strip(v.val, {"item", "included"})))

(***************************************************************************)
(* State of one invocation                                                 *)
(***************************************************************************)
NoReply == [kind |-> "none", value |-> JNull]
NoOutcome == [kind |-> "none", value |-> JNull]

\* The slot of a caller that has not called anything yet.
Idle == [pc |-> "idle", op |-> "none", args |-> << >>, sent |-> << >>,
         reply |-> NoReply, outcome |-> NoOutcome]

\* The invocation right after it called plankaRequest with the argument list
\* request: suspended at its await.
Awaiting(op, args, request) ==
    [pc |-> "awaiting", op |-> op, args |-> args, sent |-> <<request>>,
     reply |-> NoReply, outcome |-> NoOutcome]

Returned(call, value) ==
    [call EXCEPT !.pc = "returned", !.outcome = [kind |-> "returned", value |-> value]]

Thrown(call, error) ==
    [call EXCEPT !.pc = "thrown", !.outcome = [kind |-> "thrown", value |-> error]]

\* A caller can start an operation when it has none in progress.
CanInvoke(c) == calls[c].pc \in {"idle", "returned", "thrown"}

\* `error instanceof Error ? error.message : String(error)`
CauseMessageUnchecked(error) == IF error.type = "Error" THEN error.val ELSE "undefined"

CauseMessage(error) == IF error.type = "Error" THEN error.val ELSE String(error)

(***************************************************************************)
(* getProjects                                                             *)
(***************************************************************************)
ClampPerPageNever(perPage) == perPage

ClampPerPageBoth(perPage) ==
    IF perPage > MaxPerPage THEN MaxPerPage ELSE IF perPage < 1 THEN 1 ELSE perPage

\* `if (perPage > 100) { perPage = 100; }`
ClampPerPage(perPage) == IF perPage > MaxPerPage THEN MaxPerPage ELSE perPage

\* The argument list getProjects passes to plankaRequest.
getProjectsRequest(page, perPage) ==
    LET p == IF page.given THEN page.val ELSE DefaultPage
        pp == ClampPerPage(IF perPage.given THEN perPage.val ELSE DefaultPerPage)
        queryParams == << <<"page", ToString(p)>>, <<"per_page", ToString(pp)>> >>
    IN << "/api/projects?" \o URLSearchParamsToString(queryParams),
          [method |-> "GET"] >>

getProjects(c, page, perPage) ==
    /\ CanInvoke(c)
    /\ calls' = [calls EXCEPT ![c] =
                   Awaiting("getProjects", [page |-> page, perPage |-> perPage],
                            getProjectsRequest(page, perPage))]

\* After the await: validate and return, or catch and rethrow.
getProjectsContinue(call) ==
    IF call.reply.kind = "rejected"
    THEN Thrown(call, Error("Failed to get projects: " \o CauseMessage(call.reply.value)))
    ELSE LET parsedResponse == ProjectsResponseSchema(call.reply.value)
         IN IF parsedResponse.success
            THEN Returned(call, parsedResponse.data)
            ELSE Thrown(call, Error("Failed to get projects: "
                                    \o CauseMessage(parsedResponse.error)))

getProjectsResume(c) ==
    /\ calls[c].pc = "settled"
    /\ calls[c].op = "getProjects"
    /\ calls' = [calls EXCEPT ![c] = getProjectsContinue(@)]

(***************************************************************************)
(* getProject                                                              *)
(***************************************************************************)
\* plankaRequest is called with the path alone: no options, no method.
getProjectRequest(id) == << "/api/projects/" \o id >>

getProject(c, id) ==
    /\ CanInvoke(c)
    /\ calls' = [calls EXCEPT ![c] =
                   Awaiting("getProject", [id |-> id], getProjectRequest(id))]

getProjectContinue(call) ==
    IF call.reply.kind = "rejected"
    THEN Thrown(call, Error("Failed to get project: " \o CauseMessage(call.reply.value)))
    ELSE LET parsedResponse == ProjectResponseSchema(call.reply.value)
         IN IF parsedResponse.success
            THEN Returned(call, parsedResponse.data.val["item"])
            ELSE Thrown(call, Error("Failed to get project: "
                                    \o CauseMessage(parsedResponse.error)))

getProjectResume(c) ==
    /\ calls[c].pc = "settled"
    /\ calls[c].op = "getProject"
    /\ calls' = [calls EXCEPT ![c] = getProjectContinue(@)]

(***************************************************************************)
(* createProject                                                           *)
(***************************************************************************)
createProjectRequest(options) ==
    << "/api/projects", [method |-> "POST", body |-> [name |-> options.name]] >>

createProject(c, options) ==
    /\ CanInvoke(c)
    /\ calls' = [calls EXCEPT ![c] =
                   Awaiting("createProject", options, createProjectRequest(options))]

createProjectContinue(call) ==
    IF call.reply.kind = "rejected"
    THEN Thrown(call, Error("Failed to create project: " \o CauseMessage(call.reply.value)))
    ELSE LET parsedResponse == ProjectResponseSchema(call.reply.value)
         IN IF parsedResponse.success
            THEN Returned(call, parsedResponse.data.val["item"])
            ELSE Thrown(call, Error("Failed to create project: "
                                    \o CauseMessage(parsedResponse.error)))

createProjectResume(c) ==
    /\ calls[c].pc = "settled"
    /\ calls[c].op = "createProject"
    /\ calls' = [calls EXCEPT ![c] = createProjectContinue(@)]

(***************************************************************************)
(* updateProject                                                           *)
(***************************************************************************)
\* `if (options.name)`: an empty name is dropped.
updateBodyTruthy(options) ==
    IF options.name.given /\ options.name.val # ""
    THEN [name |-> options.name.val] ELSE EmptyObj

\* An updateBody object shared by all calls: a name assigned by an earlier
\* call stays in it.
updateBodyShared(options) ==
    IF options.name.given THEN [name |-> options.name.val]
    ELSE IF \E d \in DOMAIN calls :
               /\ calls[d].op = "updateProject"
               /\ "name" \in DOMAIN calls[d].sent[1][2]["body"]
         THEN LET d == CHOOSE e \in DOMAIN calls :
                           /\ calls[e].op = "updateProject"
                           /\ "name" \in DOMAIN calls[e].sent[1][2]["body"]
              IN calls[d].sent[1][2]["body"]
         ELSE EmptyObj

\* `const updateBody = {}; if (options.name !== undefined) updateBody.name = ...`
updateBody(options) ==
    IF options.name.given THEN [name |-> options.name.val] ELSE EmptyObj

updateProjectRequestNoId(options) ==
    << "/api/projects", [method |-> "PATCH", body |-> updateBody(options)] >>

updateProjectRequest(options) ==
    << "/api/projects/" \o options.id,
       [method |-> "PATCH", body |-> updateBody(options)] >>

updateProject(c, options) ==
    /\ CanInvoke(c)
    /\ calls' = [calls EXCEPT ![c] =
                   Awaiting("updateProject", options, updateProjectRequest(options))]

updateProjectContinue(call) ==
    IF call.reply.kind = "rejected"
    THEN Thrown(call, Error("Failed to update project: " \o CauseMessage(call.reply.value)))
    ELSE LET parsedResponse == ProjectResponseSchema(call.reply.value)
         IN IF parsedResponse.success
            THEN Returned(call, parsedResponse.data.val["item"])
            ELSE Thrown(call, Error("Failed to update project: "
                                    \o CauseMessage(parsedResponse.error)))

updateProjectResume(c) ==
    /\ calls[c].pc = "settled"
    /\ calls[c].op = "updateProject"
    /\ calls' = [calls EXCEPT ![c] = updateProjectContinue(@)]

(***************************************************************************)
(* deleteProject                                                           *)
(***************************************************************************)
deleteProjectRequestNoMethod(id) == << "/api/projects/" \o id >>

deleteProjectRequest(id) == << "/api/projects/" \o id, [method |-> "DELETE"] >>

deleteProject(c, id) ==
    /\ CanInvoke(c)
    /\ calls' = [calls EXCEPT ![c] =
                   Awaiting("deleteProject", [id |-> id], deleteProjectRequest(id))]

\* A deleteProject that validates the response like the other operations.
deleteProjectContinueValidating(call) ==
    IF call.reply.kind = "rejected"
    THEN Thrown(call, Error("Failed to delete project: " \o CauseMessage(call.reply.value)))
    ELSE IF ProjectResponseSchema(call.reply.value).success
    THEN Returned(call, [success |-> TRUE])
    ELSE Thrown(call, Error("Failed to delete project: "
                            \o CauseMessage(ProjectResponseSchema(call.reply.value).error)))

\* A deleteProject that issues the request once more after a failure.
deleteProjectContinueRetry(call) ==
    IF call.reply.kind = "rejected"
    THEN IF Len(call.sent) < 2
         THEN [call EXCEPT !.pc = "awaiting", !.reply = NoReply,
                           !.sent = Append(@, call.sent[1])]
         ELSE Thrown(call, Error("Failed to delete project: "
                                 \o CauseMessage(call.reply.value)))
    ELSE Returned(call, [success |-> TRUE])

\* The response is awaited and dropped.
deleteProjectContinue(call) ==
    IF call.reply.kind = "rejected"
    THEN Thrown(call, Error("Failed to delete project: " \o CauseMessage(call.reply.value)))
    ELSE Returned(call, [success |-> TRUE])

deleteProjectResume(c) ==
    /\ calls[c].pc = "settled"
    /\ calls[c].op = "deleteProject"
    /\ calls' = [calls EXCEPT ![c] = deleteProjectContinue(@)]

(***************************************************************************)
(* plankaRequest (common/utils): the promise of a pending request settles, *)
(* with the decoded JSON of the response or with a thrown value.           *)
(***************************************************************************)
plankaRequestResolves(c, response) ==
    /\ calls[c].pc = "awaiting"
    /\ calls' = [calls EXCEPT ![c].pc = "settled",
                              ![c].reply = [kind |-> "resolved", value |-> response]]

plankaRequestRejects(c, thrown) ==
    /\ calls[c].pc = "awaiting"
    /\ calls' = [calls EXCEPT ![c].pc = "settled",
                              ![c].reply = [kind |-> "rejected", value |-> thrown]]

(***************************************************************************)
(* Inputs                                                                  *)
(***************************************************************************)
Pages == {NoNumber} \cup {Some(n) : n \in 1..MaxPage}
PerPages ==
    {NoNumber} \cup {Some(n) : n \in {0 - 1, 0, 1, DefaultPerPage, MaxPerPage - 1,
                                      MaxPerPage, MaxPerPage + 1,
                                      MaxPerPage + MaxExcess}}
Ids == {"", "5", "42"}
Names == {"", "X", "New"}
OptNames == {NoString} \cup {Some(n) : n \in Names}

DemoProject == JObj([id |-> JStr("42"), name |-> JStr("Demo")])
NewProject == JObj([id |-> JStr("9"), name |-> JStr("New")])

\* What the remote service may answer.
Responses == <<
    JObj([item |-> DemoProject]),
    JObj([items |-> JArr(<<DemoProject, NewProject>>)]),
    JObj([item |-> DemoProject, included |-> JObj([boards |-> JArr(<< >>)])]),
    JObj([items |-> JArr(<< >>), included |-> JObj(EmptyObj)]),
    JObj([item |-> NewProject, total |-> JNum(1)]),
    JObj([item |-> JObj([id |-> JStr("42")])]),
    JObj([item |-> JObj([id |-> JNum(42), name |-> JStr("Demo")])]),
    JObj([items |-> JArr(<<DemoProject, JObj([name |-> JStr("Demo")])>>)]),
    JObj([item |-> DemoProject, included |-> JNull]),
    JObj([item |-> JNull]),
    JObj(EmptyObj),
    JNull,
    JStr("") >>

\* What plankaRequest may throw: Errors and values that are not Errors.
Throwables == <<
    Error("Not Found"),
    Error("fetch failed"),
    JStr("timeout"),
    JNum(503) >>

\* The replies used when several callers run concurrently.
NumConcResponses == 3
NumConcThrowables == 1

(***************************************************************************)
(* One caller at a time                                                    *)
(***************************************************************************)
Init == calls = [c \in {1} |-> Idle]

Next ==
    \/ \E page \in Pages, perPage \in PerPages : getProjects(1, page, perPage)
    \/ \E id \in Ids : getProject(1, id)
    \/ \E name \in Names : createProject(1, [name |-> name])
    \/ \E id \in Ids, name \in OptNames : updateProject(1, [id |-> id, name |-> name])
    \/ \E id \in Ids : deleteProject(1, id)
    \/ \E i \in 1..Len(Responses) : plankaRequestResolves(1, Responses[i])
    \/ \E i \in 1..Len(Throwables) : plankaRequestRejects(1, Throwables[i])
    \/ getProjectsResume(1)
    \/ getProjectResume(1)
    \/ createProjectResume(1)
    \/ updateProjectResume(1)
    \/ deleteProjectResume(1)

Spec == Init /\ [][Next]_vars

\* A continuation whose promise has settled is run by the event loop.
Resume(c) ==
    \/ getProjectsResume(c)
    \/ getProjectResume(c)
    \/ createProjectResume(c)
    \/ updateProjectResume(c)
    \/ deleteProjectResume(c)

FairSpec == Spec /\ WF_vars(Resume(1))

(***************************************************************************)
(* Several callers, interleaved at the awaits                              *)
(***************************************************************************)
InitConc == calls = [c \in Calls |-> Idle]

NextConc ==
    \E c \in Calls :
        \/ \E perPage \in {Some(DefaultPerPage), Some(MaxPerPage + MaxExcess)} :
               getProjects(c, NoNumber, perPage)
        \/ getProject(c, "5")
        \/ createProject(c, [name |-> "New"])
        \/ \E name \in {NoString, Some("X")} :
               updateProject(c, [id |-> "5", name |-> name])
        \/ deleteProject(c, "5")
        \/ \E i \in 1..NumConcResponses : plankaRequestResolves(c, Responses[i])
        \/ \E i \in 1..NumConcThrowables : plankaRequestRejects(c, Throwables[i])
        \/ getProjectsResume(c)
        \/ getProjectResume(c)
        \/ createProjectResume(c)
        \/ updateProjectResume(c)
        \/ deleteProjectResume(c)

SpecConc == InitConc /\ [][NextConc]_vars

(***************************************************************************)
(* What the remote service reads from a request                            *)
(***************************************************************************)
\* Index of the first occurrence of sub in s at or after i, 0 if none.
RECURSIVE IndexFrom(_, _, _)
IndexFrom(s, sub, i) ==
    IF i + Len(sub) - 1 > Len(s) THEN 0
    ELSE IF SubSeq(s, i, i + Len(sub) - 1) = sub THEN i
    ELSE IndexFrom(s, sub, i + 1)

\* The path of a URL without its query, and the query without the "?".
PathOf(url) ==
    IF IndexFrom(url, "?", 1) = 0 THEN url
    ELSE SubSeq(url, 1, IndexFrom(url, "?", 1) - 1)

QueryOf(url) ==
    IF IndexFrom(url, "?", 1) = 0 THEN ""
    ELSE SubSeq(url, IndexFrom(url, "?", 1) + 1, Len(url))

HasParam(query, name) ==
    \/ IndexFrom(query, name \o "=", 1) = 1
    \/ IndexFrom(query, "&" \o name \o "=", 1) # 0

\* The value of the first parameter called name in a query that has one.
ParamValue(query, name) ==
    LET start == IF IndexFrom(query, name \o "=", 1) = 1
                 THEN Len(name) + 2
                 ELSE IndexFrom(query, "&" \o name \o "=", 1) + Len(name) + 2
        amp == IndexFrom(query, "&", start)
    IN SubSeq(query, start, IF amp = 0 THEN Len(query) ELSE amp - 1)

DigitValue(ch) ==
    CASE ch = "0" -> 0 [] ch = "1" -> 1 [] ch = "2" -> 2 [] ch = "3" -> 3
      [] ch = "4" -> 4 [] ch = "5" -> 5 [] ch = "6" -> 6 [] ch = "7" -> 7
      [] ch = "8" -> 8 [] ch = "9" -> 9

\* The integer a decimal numeral denotes.
RECURSIVE ParseNat(_)
ParseNat(s) ==
    IF Len(s) = 1 THEN DigitValue(s)
    ELSE 10 * ParseNat(SubSeq(s, 1, Len(s) - 1)) + DigitValue(SubSeq(s, Len(s), Len(s)))

ParseInt(s) ==
    IF SubSeq(s, 1, 1) = "-" THEN 0 - ParseNat(SubSeq(s, 2, Len(s))) ELSE ParseNat(s)

\* The request an invocation has issued: the URL and the options argument.
Issued(c) == calls[c].pc # "idle"
Url(c) == calls[c].sent[1][1]
HasOptions(c) == Len(calls[c].sent[1]) = 2
Options(c) == calls[c].sent[1][2]
SentPage(c) == ParseInt(ParamValue(QueryOf(Url(c)), "page"))
SentPerPage(c) == ParseInt(ParamValue(QueryOf(Url(c)), "per_page"))
Done(c) == calls[c].pc \in {"returned", "thrown"}

(***************************************************************************)
(* The declared response shapes, as the interface documents them           *)
(***************************************************************************)
IsProject(v) ==
    /\ v.type = "object"
    /\ {"id", "name"} \subseteq DOMAIN v.val
    /\ v.val["id"].type = "string"
    /\ v.val["name"].type = "string"

IsIncluded(f) == "included" \notin DOMAIN f \/ f["included"].type = "object"

IsSingle(v) ==
    /\ v.type = "object"
    /\ "item" \in DOMAIN v.val
    /\ IsProject(v.val["item"])
    /\ IsIncluded(v.val)

IsCollection(v) ==
    /\ v.type = "object"
    /\ "items" \in DOMAIN v.val
    /\ v.val["items"].type = "array"
    /\ \A i \in 1..Len(v.val["items"].val) : IsProject(v.val["items"].val[i])
    /\ IsIncluded(v.val)

Conforms(op, v) == IF op = "getProjects" THEN IsCollection(v) ELSE IsSingle(v)

Validating == {"getProjects", "getProject", "createProject", "updateProject"}

(***************************************************************************)
(* Properties                                                              *)
(***************************************************************************)

\* C1: the per_page of every request getProjects issues is at most 100; a
\* supplied perPage above 100 goes out as exactly 100, in a request that is
\* issued all the same.
PerPageNeverExceedsMax ==
    \A c \in DOMAIN calls :
        calls[c].op = "getProjects" =>
            /\ Len(calls[c].sent) = 1
            /\ HasParam(QueryOf(Url(c)), "per_page")
            /\ SentPerPage(c) <= 100
            /\ (calls[c].args.perPage.given /\ calls[c].args.perPage.val > 100
                    => SentPerPage(c) = 100)

OversizedPerPageClamped ==
    \E c \in DOMAIN calls :
        /\ calls[c].op = "getProjects"
        /\ calls[c].args.page = Some(1)
        /\ calls[c].args.perPage.given
        /\ calls[c].args.perPage.val > 100
        /\ Url(c) = "/api/projects?page=1&per_page=100"
        /\ calls[c].pc = "returned"

\* C2: a perPage of at most 100 goes out unchanged, an omitted perPage goes
\* out as 30, an omitted page as 1, and a supplied page always goes out
\* unchanged, clamped perPage or not.
PerPageAndPageForwarded ==
    \A c \in DOMAIN calls :
        calls[c].op = "getProjects" =>
            /\ HasParam(QueryOf(Url(c)), "page")
            /\ HasParam(QueryOf(Url(c)), "per_page")
            /\ (calls[c].args.perPage.given /\ calls[c].args.perPage.val <= 100
                    => SentPerPage(c) = calls[c].args.perPage.val)
            /\ (~calls[c].args.perPage.given => SentPerPage(c) = 30)
            /\ (~calls[c].args.page.given => SentPage(c) = 1)
            /\ (calls[c].args.page.given => SentPage(c) = calls[c].args.page.val)

DefaultsSent ==
    \E c \in DOMAIN calls :
        /\ calls[c].op = "getProjects"
        /\ ~calls[c].args.page.given
        /\ ~calls[c].args.perPage.given
        /\ Url(c) = "/api/projects?page=1&per_page=30"

\* C3: the body of the PATCH request of updateProject holds the name when the
\* caller supplied one and nothing else; without a name the body is empty,
\* the id is never in it, and the request is issued all the same.
UpdateBodyExactlySupplied ==
    \A c \in DOMAIN calls :
        calls[c].op = "updateProject" =>
            /\ Len(calls[c].sent) = 1
            /\ HasOptions(c)
            /\ "body" \in DOMAIN Options(c)
            /\ "id" \notin DOMAIN Options(c)["body"]
            /\ IF calls[c].args.name.given
               THEN /\ DOMAIN Options(c)["body"] = {"name"}
                    /\ Options(c)["body"]["name"] = calls[c].args.name.val
               ELSE DOMAIN Options(c)["body"] = {}

EmptyUpdateSent ==
    \E c \in DOMAIN calls :
        /\ calls[c].op = "updateProject"
        /\ ~calls[c].args.name.given
        /\ calls[c].pc = "awaiting"
        /\ calls[c].sent = << <<"/api/projects/5", [method |-> "PATCH", body |-> EmptyObj]>> >>

\* C4: getProjects, getProject, createProject and updateProject return a
\* value only when the response conforms to the declared response shape; on
\* a response that does not conform they throw and return nothing.
ReturnedOnlyValidated ==
    \A c \in DOMAIN calls :
        calls[c].op \in Validating =>
            /\ calls[c].pc = "returned" =>
                   /\ calls[c].reply.kind = "resolved"
                   /\ Conforms(calls[c].op, calls[c].reply.value)
                   /\ calls[c].outcome.kind = "returned"
            /\ (Done(c) /\ calls[c].reply.kind = "resolved"
                        /\ ~Conforms(calls[c].op, calls[c].reply.value)) =>
                   /\ calls[c].pc = "thrown"
                   /\ calls[c].outcome.kind = "thrown"

MalformedListRejected ==
    \E c \in DOMAIN calls :
        /\ calls[c].op = "getProjects"
        /\ calls[c].reply.kind = "resolved"
        /\ calls[c].reply.value.type = "object"
        /\ "items" \in DOMAIN calls[c].reply.value.val
        /\ ~IsCollection(calls[c].reply.value)
        /\ calls[c].pc = "thrown"

\* The fixed prefix of the error of each operation.
Prefix(op) ==
    CASE op = "getProjects" -> "Failed to get projects: "
      [] op = "getProject" -> "Failed to get project: "
      [] op = "createProject" -> "Failed to create project: "
      [] op = "updateProject" -> "Failed to update project: "
      [] op = "deleteProject" -> "Failed to delete project: "

\* The message of the failure an invocation met: of the value its request
\* threw, or of the validation of its response.
Cause(c) ==
    IF calls[c].reply.kind = "rejected"
    THEN IF calls[c].reply.value.type = "Error"
         THEN calls[c].reply.value.val
         ELSE String(calls[c].reply.value)
    ELSE IF calls[c].op = "getProjects"
         THEN ProjectsResponseSchema(calls[c].reply.value).error.val
         ELSE ProjectResponseSchema(calls[c].reply.value).error.val

Failed(c) ==
    \/ calls[c].reply.kind = "rejected"
    \/ /\ calls[c].reply.kind = "resolved"
       /\ calls[c].op \in Validating
       /\ ~Conforms(calls[c].op, calls[c].reply.value)

\* C5: in each of the five operations a failure of the request (an Error or
\* any other thrown value) or of the validation ends the operation with an
\* Error whose message is the prefix of the operation followed by the message
\* of the cause; a not-found is wrapped like any other failure.
FailuresWrappedUniformly ==
    \A c \in DOMAIN calls :
        /\ (Done(c) /\ Failed(c)) =>
               /\ calls[c].pc = "thrown"
               /\ calls[c].outcome.value = Error(Prefix(calls[c].op) \o Cause(c))
        /\ calls[c].pc = "thrown" =>
               /\ calls[c].outcome.kind = "thrown"
               /\ calls[c].outcome.value.type = "Error"
               /\ SubSeq(calls[c].outcome.value.val, 1, Len(Prefix(calls[c].op)))
                      = Prefix(calls[c].op)

NonErrorWrapped ==
    \E c \in DOMAIN calls :
        /\ calls[c].op = "deleteProject"
        /\ calls[c].reply = [kind |-> "rejected", value |-> JNum(503)]
        /\ calls[c].pc = "thrown"
        /\ calls[c].outcome.value = Error("Failed to delete project: 503")

\* C6: a deleteProject whose request completed returns {success: true},
\* whatever the response was.
DeleteIgnoresResponse ==
    \A c \in DOMAIN calls :
        (calls[c].op = "deleteProject" /\ Done(c) /\ calls[c].reply.kind = "resolved") =>
            /\ calls[c].pc = "returned"
            /\ calls[c].outcome = [kind |-> "returned", value |-> [success |-> TRUE]]

DeleteOfMalformedSucceeds ==
    \E c \in DOMAIN calls :
        /\ calls[c].op = "deleteProject"
        /\ calls[c].reply = [kind |-> "resolved", value |-> JNull]
        /\ calls[c].pc = "returned"
        /\ calls[c].outcome.value = [success |-> TRUE]

\* The method and the path of the interface table.
TableMethod(op) ==
    CASE op = "getProjects" -> "GET"
      [] op = "getProject" -> "GET"
      [] op = "createProject" -> "POST"
      [] op = "updateProject" -> "PATCH"
      [] op = "deleteProject" -> "DELETE"

TablePath(c) ==
    IF calls[c].op \in {"getProjects", "createProject"}
    THEN "/api/projects"
    ELSE "/api/projects/" \o calls[c].args.id

BodyAsTable(c) ==
    CASE calls[c].op = "createProject" ->
             /\ "body" \in DOMAIN Options(c)
             /\ Options(c)["body"] = [name |-> calls[c].args.name]
      [] calls[c].op = "updateProject" -> "body" \in DOMAIN Options(c)
      [] OTHER -> "body" \notin DOMAIN Options(c)

\* C7 as stated: every operation passes the method of the table to the
\* request function, explicitly.
EveryOperationPassesMethod ==
    \A c \in DOMAIN calls :
        Issued(c) =>
            /\ PathOf(Url(c)) = TablePath(c)
            /\ HasOptions(c)
            /\ "method" \in DOMAIN Options(c)
            /\ Options(c)["method"] = TableMethod(calls[c].op)

\* C7: getProjects, createProject, updateProject and deleteProject pass the
\* method and the path of the table (and createProject the body {name});
\* getProject passes the path /api/projects/{id} alone, without options, and
\* so leaves the method to the request function.
MethodPassedExceptByGet ==
    \A c \in DOMAIN calls :
        Issued(c) =>
            /\ PathOf(Url(c)) = TablePath(c)
            /\ IF calls[c].op = "getProject"
               THEN calls[c].sent = << <<"/api/projects/" \o calls[c].args.id>> >>
               ELSE /\ HasOptions(c)
                    /\ "method" \in DOMAIN Options(c)
                    /\ Options(c)["method"] = TableMethod(calls[c].op)
                    /\ BodyAsTable(c)
            /\ calls[c].op = "getProjects" =>
                   /\ HasParam(QueryOf(Url(c)), "page")
                   /\ HasParam(QueryOf(Url(c)), "per_page")

GetWithoutOptions ==
    \E c \in DOMAIN calls :
        /\ calls[c].op = "getProject"
        /\ calls[c].sent = << <<"/api/projects/42">> >>
        /\ calls[c].pc = "returned"

ByIdOps == {"getProject", "updateProject", "deleteProject"}

\* C8 as stated: getProject, updateProject and deleteProject never issue a
\* request whose path ends right after /api/projects/.
NoRequestWithEmptyId ==
    \A c \in DOMAIN calls :
        (calls[c].op \in ByIdOps /\ Issued(c)) => Url(c) # "/api/projects/"

\* C8: getProject, updateProject and deleteProject put the id into the path
\* as it is, without checking it: every call issues its request to
\* /api/projects/ followed by the id, and with an empty id to /api/projects/.
IdPassedVerbatim ==
    \A c \in DOMAIN calls :
        calls[c].op \in ByIdOps =>
            /\ Len(calls[c].sent) = 1
            /\ Url(c) = "/api/projects/" \o calls[c].args.id
            /\ (calls[c].args.id = "" => Url(c) = "/api/projects/")

EmptyIdRequested ==
    \E c \in DOMAIN calls :
        /\ calls[c].op = "updateProject"
        /\ calls[c].args.id = ""
        /\ calls[c].pc = "awaiting"
        /\ Url(c) = "/api/projects/"

\* C9: an invocation has issued exactly one request from its start on, also
\* after a failed request or a failed validation, and ends (returned or
\* thrown) once its request has settled.
OneRequestPerInvocation ==
    /\ [](\A c \in DOMAIN calls :
             /\ Issued(c) => Len(calls[c].sent) = 1
             /\ Done(c) => calls[c].reply.kind # "none"
             /\ calls[c].pc = "thrown" => calls[c].outcome.kind = "thrown"
             /\ calls[c].pc = "returned" => calls[c].outcome.kind = "returned")
    /\ (calls[1].pc = "settled" ~> Done(1))

FailedAfterOneRequest ==
    \E c \in DOMAIN calls :
        /\ calls[c].op = "deleteProject"
        /\ calls[c].reply.kind = "rejected"
        /\ calls[c].pc = "thrown"
        /\ Len(calls[c].sent) = 1

\* C10: with callers interleaved at their awaits, two invocations of the same
\* operation with the same arguments have issued the same request, whatever
\* the other callers did in between, and with the same reply they end with
\* the same outcome.
CallsIndependent ==
    \A c \in DOMAIN calls, d \in DOMAIN calls :
        (Issued(c) /\ Issued(d) /\ calls[c].op = calls[d].op
                   /\ calls[c].args = calls[d].args) =>
            /\ calls[c].sent = calls[d].sent
            /\ (Done(c) /\ Done(d) /\ calls[c].reply = calls[d].reply)
                   => calls[c].outcome = calls[d].outcome

InterleavedCalls ==
    \E c \in DOMAIN calls, d \in DOMAIN calls :
        /\ c # d
        /\ calls[c].op = "updateProject"
        /\ calls[d].op = "updateProject"
        /\ calls[c].args = calls[d].args
        /\ ~calls[c].args.name.given
        /\ calls[c].pc = "awaiting"
        /\ calls[d].pc = "settled"
        /\ calls[c].sent = calls[d].sent
====
